---- MODULE Spec2Model ----
(***************************************************************************)
(* Model of the hello-rust-wasm workspace:                                 *)
(*   wasm-types       BoundedString (bounded_str.rs, tiny_str.rs), its     *)
(*                    SCALE codec, and the Message envelope (lib.rs,       *)
(*                    sender.rs);                                          *)
(*   native-executor  the console_log host import over the linear memory   *)
(*                    (main.rs);                                           *)
(*   wasm-runtime     the guest exports (lib.rs).                          *)
(* Bytes are integers 0..255, a &str is the sequence of its UTF-8 bytes,   *)
(* a char is its Unicode scalar value.                                     *)
(***************************************************************************)
EXTENDS Integers, Sequences, FiniteSets, TLC

\* pub const CHAR_LIMIT: usize = 127;
CHAR_LIMIT == 127

\* Bounds of the model.
MaxMut == 2
MaxSuffix == 1
MaxWire == 2
MaxWrites == 1
MaxEnc == 1
MaxStores == 2
MaxGrows == 2

U8 == 256

Min(a, b) == IF a < b THEN a ELSE b

(***************************************************************************)
(* UTF-8: core::char / core::str as used by the crate.                     *)
(***************************************************************************)

\* (ch as i8) >= -0x40
is_utf8_char_boundary(ch) ==
    LET asI8 == IF ch >= 128 THEN ch - U8 ELSE ch
    IN asI8 >= -64

\* char::len_utf8
len_utf8(c) ==
    IF c < 128 THEN 1
    ELSE IF c < 2048 THEN 2
    ELSE IF c < 65536 THEN 3
    ELSE 4

\* char::encode_utf8: the bytes written to the front of the destination
encode_utf8(c) ==
    IF c < 128 THEN <<c>>
    ELSE IF c < 2048 THEN <<192 + (c \div 64), 128 + (c % 64)>>
    ELSE IF c < 65536 THEN
        <<224 + (c \div 4096), 128 + ((c \div 64) % 64), 128 + (c % 64)>>
    ELSE <<240 + (c \div 262144), 128 + ((c \div 4096) % 64),
           128 + ((c \div 64) % 64), 128 + (c % 64)>>

IsCont(b) == b >= 128 /\ b <= 191

\* Width of the well-formed UTF-8 sequence starting at index i of the n
\* bytes b, 0 when there is none (core::str::from_utf8's validation rules).
SeqWidthAt(b, n, i) ==
    LET b0 == b[i]
    IN  IF b0 < 128 THEN 1
        ELSE IF b0 >= 194 /\ b0 <= 223 THEN
            IF i + 1 <= n /\ IsCont(b[i + 1]) THEN 2 ELSE 0
        ELSE IF b0 >= 224 /\ b0 <= 239 THEN
            IF i + 2 <= n
               /\ ( \/ (b0 = 224 /\ b[i + 1] >= 160 /\ b[i + 1] <= 191)
                    \/ (b0 >= 225 /\ b0 <= 236 /\ IsCont(b[i + 1]))
                    \/ (b0 = 237 /\ b[i + 1] >= 128 /\ b[i + 1] <= 159)
                    \/ (b0 >= 238 /\ IsCont(b[i + 1])) )
               /\ IsCont(b[i + 2])
            THEN 3 ELSE 0
        ELSE IF b0 >= 240 /\ b0 <= 244 THEN
            IF i + 3 <= n
               /\ ( \/ (b0 = 240 /\ b[i + 1] >= 144 /\ b[i + 1] <= 191)
                    \/ (b0 >= 241 /\ b0 <= 243 /\ IsCont(b[i + 1]))
                    \/ (b0 = 244 /\ b[i + 1] >= 128 /\ b[i + 1] <= 143) )
               /\ IsCont(b[i + 2]) /\ IsCont(b[i + 3])
            THEN 4 ELSE 0
        ELSE 0

\* str::from_utf8(bytes).is_ok(): the bytes split into well-formed
\* sequences, i.e. the first byte starts one, every byte that is not a
\* continuation starts one that ends where the next one starts, and no
\* continuation byte is left over.
from_utf8_ok(b) ==
    LET n == Len(b)
    IN  \A i \in 1..n :
            IF IsCont(b[i]) THEN i > 1
            ELSE LET w == SeqWidthAt(b, n, i)
                 IN  w > 0 /\ (i + w > n \/ ~IsCont(b[i + w]))

\* The scalar value of the well-formed sequence b (1 to 4 bytes).
DecodeChar(b) ==
    IF Len(b) = 1 THEN b[1]
    ELSE IF Len(b) = 2 THEN (b[1] - 192) * 64 + (b[2] - 128)
    ELSE IF Len(b) = 3 THEN
        (b[1] - 224) * 4096 + (b[2] - 128) * 64 + (b[3] - 128)
    ELSE (b[1] - 240) * 262144 + (b[2] - 128) * 4096
         + (b[3] - 128) * 64 + (b[4] - 128)

\* Width of the last char of a valid non-empty str: Chars::next_back walks
\* back to the closest boundary byte.
RECURSIVE BackWidth(_, _)
BackWidth(b, w) ==
    IF w >= Len(b) \/ is_utf8_char_boundary(b[Len(b) - w + 1]) THEN w
    ELSE BackWidth(b, w + 1)

\* String / &str built from a sequence of chars
RECURSIVE StrOf(_)
StrOf(cs) == IF cs = <<>> THEN <<>> ELSE encode_utf8(Head(cs)) \o StrOf(Tail(cs))

(***************************************************************************)
(* BoundedString { chars: [u8; CHAR_LIMIT + 1] }.  Slot k of the Rust      *)
(* array is chars[k + 1] here.                                             *)
(***************************************************************************)

Slots == 1..(CHAR_LIMIT + 1)

\* BoundedString::new
new == [i \in Slots |-> 0]

\* BoundedString::len
len(c) == c[1]

\* BoundedString::as_bytes: from_raw_parts(ptr + 1, len)
as_bytes(c) == [i \in 1..len(c) |-> c[i + 1]]

\* append_str_unchecked on a buffer whose precondition holds
append_str_unchecked(c, src) ==
    LET l == c[1]
        new_len == l + Len(src)
    IN  [i \in Slots |->
            IF i = 1 THEN new_len % U8
            ELSE IF i - 1 > l /\ i - 1 <= new_len THEN src[i - 1 - l]
            ELSE c[i]]

\* the unsafe precondition of append_str_unchecked
append_fits(c, src) == c[1] + Len(src) <= CHAR_LIMIT

\* from_str cutting at CHAR_LIMIT without looking for a boundary
scan_boundary_none(s, i) == i

\* from_str's backward scan: closest i <= CHAR_LIMIT with a boundary byte
RECURSIVE scan_boundary(_, _)
scan_boundary(s, i) ==
    IF i > 0 /\ ~is_utf8_char_boundary(s[i + 1]) THEN scan_boundary(s, i - 1)
    ELSE i

\* the prefix from_str keeps
from_str_prefix(s) ==
    IF Len(s) > CHAR_LIMIT THEN SubSeq(s, 1, scan_boundary(s, CHAR_LIMIT))
    ELSE s

\* debug_assert!(i >= CHAR_LIMIT.saturating_sub(3))
from_str_assert(s) ==
    Len(s) > CHAR_LIMIT => scan_boundary(s, CHAR_LIMIT) >= CHAR_LIMIT - 3

\* BoundedString::from_str
from_str(s) == append_str_unchecked(new, from_str_prefix(s))

\* a checked constructor that also refuses the input that fits exactly
from_str_checked_some_strict(s) == Len(s) < CHAR_LIMIT

\* BoundedString::from_str_checked / tiny_str.rs try_from_str: None when
\* the input does not fit
from_str_checked_some(s) == ~(Len(s) > CHAR_LIMIT)

\* equality of the two arrays, as #[derive(PartialEq)] would compare them
eq_whole_array(a, b) == a = b

\* <BoundedString as PartialEq>::eq: compares the as_str() views
eq(a, b) == as_bytes(a) = as_bytes(b)

\* <BoundedString as Hash>::hash: what <str as Hash>::hash feeds the hasher,
\* the bytes of as_str() and the terminator 0xFF
hash(c) == as_bytes(c) \o <<255>>

\* width of the char whose first byte is b0, in a valid str
width_of_lead(b0) ==
    IF b0 < 128 THEN 1
    ELSE IF b0 < 224 THEN 2
    ELSE IF b0 < 240 THEN 3
    ELSE 4

\* a loop that copies bytes, as many as fit, whatever char they belong to
from_loop_bytewise(s, i) == Min(Len(s), CHAR_LIMIT)

\* tiny_str.rs From<&str>: the loop over s.chars() with i bytes stored so
\* far; it stops at the first char that split_at_mut_checked has no room for
RECURSIVE from_loop(_, _)
from_loop(s, i) ==
    IF i >= Len(s) \/ width_of_lead(s[i + 1]) > CHAR_LIMIT - i THEN i
    ELSE from_loop(s, i + width_of_lead(s[i + 1]))

\* tiny_str.rs From<&str>: the buffer built
from(s) ==
    LET k == from_loop(s, 0)
    IN  [i \in Slots |-> IF i = 1 THEN k ELSE IF i - 1 <= k THEN s[i - 1] ELSE 0]

(***************************************************************************)
(* SCALE codec.  An Input is the sequence of bytes still to be read; a     *)
(* decode result carries the input left over.                              *)
(***************************************************************************)

ErrNotEnoughData == "Not enough data to fill buffer"
ErrOutOfBounds == "string out of bounds"
ErrInvalidUtf8 == "invalid utf8 string"
ErrNoVariant == "variant doesn't exist"

\* <&[u8] as Input>::read(into) for a destination of n bytes
input_read_ok(inp, n) == ~(n > Len(inp))

\* the input after a successful read of n bytes
input_advance(inp, n) == SubSeq(inp, n + 1, Len(inp))

\* encode_to with the exclusive range &self.chars[..len]
encode_to_exclusive(c) == [i \in 1..len(c) |-> c[i]]

\* encode_to writing the whole array, padding included
encode_to_whole_array(c) == c

\* <BoundedString as Encode>::encode_to / using_encoded: &self.chars[..=len]
encode_to(c) == [i \in 1..(len(c) + 1) |-> c[i]]

\* <BoundedString as Encode>::encoded_size
encoded_size(c) == c[1] + 1

\* a size hint that follows the length byte
size_hint_exact(c) == c[1] + 1

\* <BoundedString as Encode>::size_hint: self.chars.len()
size_hint(c) == Len(c)

\* the result of a successful decode of the l bytes at the front of in1
decoded(l, in1) ==
    [ok |-> TRUE, err |-> "",
     chars |-> [i \in Slots |->
                  IF i = 1 THEN l
                  ELSE IF i - 1 <= l /\ i - 1 <= Len(in1) THEN in1[i - 1] ELSE 0],
     rest |-> input_advance(in1, Min(l, Len(in1)))]

\* a payload area taken to be as long as the whole array
payload_slots_whole_array == Len(new)

\* chars.split_first_mut(): the slots after the length slot
payload_slots == Len(new) - 1

\* decode dropping the result of input.read(bytes)
decode_ignoring_read(inp) ==
    IF ~input_read_ok(inp, 1) THEN
        [ok |-> FALSE, err |-> ErrNotEnoughData, chars |-> new, rest |-> inp]
    ELSE
        LET l == inp[1]
            in1 == input_advance(inp, 1)
        IN  IF l > payload_slots THEN
                [ok |-> FALSE, err |-> ErrOutOfBounds, chars |-> new, rest |-> in1]
            ELSE IF ~from_utf8_ok(as_bytes(decoded(l, in1).chars)) THEN
                [ok |-> FALSE, err |-> ErrInvalidUtf8, chars |-> new,
                 rest |-> input_advance(in1, Min(l, Len(in1)))]
            ELSE decoded(l, in1)

\* decode without the str::from_utf8 check
decode_unvalidated(inp) ==
    IF ~input_read_ok(inp, 1) THEN
        [ok |-> FALSE, err |-> ErrNotEnoughData, chars |-> new, rest |-> inp]
    ELSE
        LET l == inp[1]
            in1 == input_advance(inp, 1)
        IN  IF l > payload_slots THEN
                [ok |-> FALSE, err |-> ErrOutOfBounds, chars |-> new, rest |-> in1]
            ELSE IF ~input_read_ok(in1, l) THEN
                [ok |-> FALSE, err |-> ErrNotEnoughData, chars |-> new, rest |-> in1]
            ELSE decoded(l, in1)

\* <BoundedString as Decode>::decode
decode(inp) ==
    IF ~input_read_ok(inp, 1) THEN
        [ok |-> FALSE, err |-> ErrNotEnoughData, chars |-> new, rest |-> inp]
    ELSE
        LET l == inp[1]
            in1 == input_advance(inp, 1)
        IN  IF l > payload_slots THEN
                \* split_at_mut_checked(len as usize) is None
                [ok |-> FALSE, err |-> ErrOutOfBounds, chars |-> new, rest |-> in1]
            ELSE IF ~input_read_ok(in1, l) THEN
                [ok |-> FALSE, err |-> ErrNotEnoughData, chars |-> new, rest |-> in1]
            ELSE IF ~from_utf8_ok(SubSeq(in1, 1, l)) THEN
                [ok |-> FALSE, err |-> ErrInvalidUtf8, chars |-> new,
                 rest |-> input_advance(in1, l)]
            ELSE decoded(l, in1)

\* enum Kind { Ping, Pong } / enum Sender { Host, Wasm }: variant indices
Ping == 0
Pong == 1
Kind == {Ping, Pong}

\* variant indices counted from one
encode_kind_one_based(k) == <<k + 1>>

\* #[derive(Encode)] for Kind / Sender: one byte, the variant index
encode_kind(k) == <<k>>

\* a decoder taking every non-zero byte for the second variant
decode_kind_lenient(inp) ==
    IF ~input_read_ok(inp, 1) THEN
        [ok |-> FALSE, err |-> ErrNotEnoughData, kind |-> 0, rest |-> inp]
    ELSE
        [ok |-> TRUE, err |-> "", kind |-> IF inp[1] = 0 THEN 0 ELSE 1,
         rest |-> input_advance(inp, 1)]

\* #[derive(Decode)] for Kind / Sender
decode_kind(inp) ==
    IF ~input_read_ok(inp, 1) THEN
        [ok |-> FALSE, err |-> ErrNotEnoughData, kind |-> 0, rest |-> inp]
    ELSE IF inp[1] \in Kind THEN
        [ok |-> TRUE, err |-> "", kind |-> inp[1], rest |-> input_advance(inp, 1)]
    ELSE
        [ok |-> FALSE, err |-> ErrNoVariant, kind |-> 0,
         rest |-> input_advance(inp, 1)]

\* the fields of Message written in the opposite order
encode_message_payload_first(k, c) == encode_to(c) \o encode_kind(k)

\* #[derive(Encode)] for Message { kind, message }: the fields in order
encode_message(k, c) == encode_kind(k) \o encode_to(c)

\* #[derive(Decode)] for Message: kind first, then message
decode_message(inp) ==
    LET dk == decode_kind(inp)
    IN  IF ~dk.ok THEN
            [ok |-> FALSE, err |-> dk.err, kind |-> 0, chars |-> new,
             rest |-> dk.rest]
        ELSE
            LET dm == decode(dk.rest)
            IN  [ok |-> dm.ok, err |-> dm.err, kind |-> dk.kind,
                 chars |-> dm.chars, rest |-> dm.rest]

(***************************************************************************)
(* Inputs: the &str arguments and the byte strings that arrive from the    *)
(* other side of the boundary.                                             *)
(***************************************************************************)

\* 'a', U+00E9, U+2764, U+1F9E1: one char of each UTF-8 width
Alphabet == {97, 233, 10084, 129505}

\* the chars pushed: the narrowest and the widest
PushChars == {97, 129505}

RECURSIVE SeqsUpTo(_, _)
SeqsUpTo(S, n) ==
    IF n = 0 THEN {<<>>}
    ELSE LET shorter == SeqsUpTo(S, n - 1)
         IN  shorter \cup {Append(q, x) : q \in shorter, x \in S}

Run(b, n) == [i \in 1..n |-> b]

PrefixLens == {0} \cup ((CHAR_LIMIT - 3)..(CHAR_LIMIT + 1))

\* "message from host", the payload the executor sends
HostText ==
    <<109, 101, 115, 115, 97, 103, 101, 32, 102, 114, 111, 109, 32,
      104, 111, 115, 116>>

\* valid UTF-8 strings: a run of 'a' followed by up to MaxSuffix chars, and
\* the executor's payload
StrInputs ==
    {Run(97, k) \o StrOf(suf) : k \in PrefixLens, suf \in SeqsUpTo(Alphabet, MaxSuffix)}
    \cup {HostText}

WireBytes == {0, 1, 2, 97, 128, 195}
LongLens == {CHAR_LIMIT - 1, CHAR_LIMIT, CHAR_LIMIT + 1, 255}
LongRuns == {CHAR_LIMIT - 1, CHAR_LIMIT, CHAR_LIMIT + 1}

\* multi-byte payloads: a split 2-byte sequence, whole 2-, 3- and 4-byte
\* chars, a surrogate and an overlong form, bare and behind a discriminant
Crafted ==
    {<<2, 195, 97>>, <<2, 195, 128>>, <<3, 226, 157, 164>>,
     <<4, 240, 159, 167, 161>>, <<3, 237, 160, 128>>, <<2, 192, 128>>,
     <<2, 1, 128>>, <<2, 2, 97>>, <<1, 2, 195, 128>>, <<0, 2, 195, 97>>,
     <<0, 1, 97, 97>>}

\* arbitrary bytes received: short strings over WireBytes, the crafted ones,
\* the executor's payload behind Ping and a length byte, and length bytes
\* around the capacity followed by long runs, bare or behind a discriminant
WireInputs ==
    SeqsUpTo(WireBytes, MaxWire)
    \cup Crafted
    \cup {<<Ping, l>> \o HostText : l \in {Len(HostText), Len(HostText) + 1}}
    \cup {<<l>> \o Run(97, k) : l \in LongLens, k \in LongRuns}
    \cup {<<d, l>> \o Run(97, k) : d \in {0, 1, 2}, l \in LongLens, k \in LongRuns}

(***************************************************************************)
(* State.  One BoundedString is followed through its life: it is built     *)
(* from the &str at hand or decoded from the bytes that arrived, mutated,  *)
(* encoded, and decoded again on the other side.                           *)
(***************************************************************************)
VARIABLES
    pc,         \* "start": nothing built yet; "incoming": received bytes
                \* await decoding; "live": the string exists; "sent": its
                \* encoding is in flight; "done": the decode failed
    chars,      \* the BoundedString's buffer
    src,        \* the &str argument at hand (its UTF-8 bytes)
    wire,       \* the codec input / output: bytes in flight
    last,       \* the last call and what it returned
    ub,         \* an unsafe precondition was violated: behaviour undefined
    nmut,       \* number of try_push / pop calls made
    nenc,       \* number of encode calls made
    nwrites,    \* number of writes made through the mutable accessors
    usizeBits,  \* pointer width of the host the executor was built for
    pages,      \* current size of the linear memory, in wasm pages
    mem,        \* the bytes stored in the linear memory (zero elsewhere)
    blast,      \* the last call across the boundary and its outcome
    nstores,    \* number of guest stores made
    ngrows      \* number of memory.grow calls made

strVars == <<pc, chars, src, wire, last, ub, nmut, nenc, nwrites>>
bridgeVars == <<usizeBits, pages, mem, blast, nstores, ngrows>>
vars == <<pc, chars, src, wire, last, ub, nmut, nenc, nwrites,
          usizeBits, pages, mem, blast, nstores, ngrows>>

\* op: the call; ok/err/ret: its outcome; arg: its input; pre: the buffer
\* the call was made on
Call(op, ok, err, ret, arg, pre) ==
    [op |-> op, ok |-> ok, err |-> err, ret |-> ret, arg |-> arg, pre |-> pre]

\* const WASM_PAGE_SIZE: u64 = 65536;
WASM_PAGE_SIZE == 65536

\* MemoryType::new(2, Some(16))
InitialPages == 2
MaximumPages == 16

BridgeCall(op, offset, length, ok, err, text) ==
    [op |-> op, offset |-> offset, length |-> length, ok |-> ok, err |-> err,
     text |-> text]

\* the linear memory as Memory::new leaves it: InitialPages zeroed pages
MemInit ==
    /\ pages = InitialPages
    /\ mem = <<>>
    /\ blast = BridgeCall("init", [page |-> 0, off |-> 0], [page |-> 0, off |-> 0],
                          TRUE, "", <<>>)
    /\ nstores = 0
    /\ ngrows = 0

Init ==
    /\ chars = new
    /\ \/ pc = "start" /\ src \in StrInputs /\ wire = <<>>
       \/ pc = "incoming" /\ src = <<>> /\ wire \in WireInputs
    /\ last = Call("init", TRUE, "", 0, <<>>, <<>>)
    /\ ub = FALSE
    /\ nmut = 0
    /\ nenc = 0
    /\ nwrites = 0
    /\ usizeBits = 64
    /\ MemInit

\* let s = BoundedString::new();
New ==
    /\ pc = "start" /\ ~ub
    /\ pc' = "live"
    /\ chars' = new
    /\ last' = Call("new", TRUE, "", 0, <<>>, <<>>)
    /\ UNCHANGED <<src, wire, ub, nmut, nenc, nwrites>>
    /\ UNCHANGED bridgeVars

\* BoundedString::from_str(src), also From<&str> in bounded_str.rs
FromStr ==
    /\ pc = "start" /\ ~ub
    /\ \E debug_assertions \in BOOLEAN :
         IF debug_assertions /\ ~from_str_assert(src) THEN
            \* debug_assert! panics: nothing is constructed
            /\ last' = Call("from_str", FALSE, "panic", 0, src, <<>>)
            /\ UNCHANGED <<pc, chars, ub>>
         ELSE IF ~append_fits(new, from_str_prefix(src)) THEN
            /\ ub' = TRUE
            /\ last' = Call("from_str", FALSE, "ub", 0, src, <<>>)
            /\ UNCHANGED <<pc, chars>>
         ELSE
            /\ pc' = "live"
            /\ chars' = from_str(src)
            /\ last' = Call("from_str", TRUE, "", 0, src, <<>>)
            /\ UNCHANGED ub
    /\ UNCHANGED <<src, wire, nmut, nenc, nwrites>>
    /\ UNCHANGED bridgeVars

\* BoundedString::from(src) of tiny_str.rs, the one the crate exports
From ==
    /\ pc = "start" /\ ~ub
    /\ pc' = "live"
    /\ chars' = from(src)
    /\ last' = Call("from", TRUE, "", 0, src, <<>>)
    /\ UNCHANGED <<src, wire, ub, nmut, nenc, nwrites>>
    /\ UNCHANGED bridgeVars

\* BoundedString::from_str_checked(src) / try_from_str(src)
FromStrChecked ==
    /\ pc = "start" /\ ~ub
    /\ IF from_str_checked_some(src) THEN
            /\ pc' = "live"
            /\ chars' = append_str_unchecked(new, src)
            /\ last' = Call("from_str_checked", TRUE, "", 0, src, <<>>)
       ELSE
            /\ last' = Call("from_str_checked", FALSE, "None", 0, src, <<>>)
            /\ UNCHANGED <<pc, chars>>
    /\ UNCHANGED <<src, wire, ub, nmut, nenc, nwrites>>
    /\ UNCHANGED bridgeVars

\* what raw_parts_mut / as_bytes assume of the length byte
length_in_buffer(c) == c[1] <= Len(c) - 1

\* try_push moving the length without writing the char
push_bytes_no_copy(c, ch) ==
    [c EXCEPT ![1] = (c[1] + Len(encode_utf8(ch))) % U8]

\* BoundedString::try_push: the buffer after a successful push
push_bytes(c, ch) ==
    LET l == c[1]
        w == Len(encode_utf8(ch))
    IN  [i \in Slots |->
            IF i = 1 THEN (l + w) % U8
            ELSE IF i - 1 > l /\ i - 1 <= l + w THEN encode_utf8(ch)[i - 1 - l]
            ELSE c[i]]

\* try_push measuring the room from the whole array, length slot included
push_fits_whole_array(c, ch) == (Len(c) - c[1]) >= len_utf8(ch)

\* try_push asking for one spare byte more than the char needs
push_fits_strict(c, ch) == (Len(c) - 1 - c[1]) > len_utf8(ch)

\* BoundedString::try_push: rest.len() >= ch.len_utf8()
push_fits(c, ch) == (Len(c) - 1 - c[1]) >= len_utf8(ch)

TryPush(ch) ==
    /\ pc = "live" /\ ~ub
    /\ nmut < MaxMut
    /\ nmut' = nmut + 1
    /\ IF ~length_in_buffer(chars) THEN
            /\ ub' = TRUE
            /\ last' = Call("try_push", FALSE, "ub", 0, <<ch>>, chars)
            /\ UNCHANGED chars
       ELSE IF push_fits(chars, ch) THEN
            /\ chars' = push_bytes(chars, ch)
            /\ last' = Call("try_push", TRUE, "", 1, <<ch>>, chars)
            /\ UNCHANGED ub
       ELSE
            /\ last' = Call("try_push", TRUE, "", 0, <<ch>>, chars)
            /\ UNCHANGED <<chars, ub>>
    /\ UNCHANGED <<pc, src, wire, nenc, nwrites>>
    /\ UNCHANGED bridgeVars

\* BoundedString::pop: the char returned for a non-empty valid content
pop_char(c) ==
    LET b == as_bytes(c)
        w == BackWidth(b, 1)
    IN  DecodeChar(SubSeq(b, Len(b) - w + 1, Len(b)))

\* pop taking every char to be one byte wide
pop_newlen_one_byte(c) == (len(c) - 1) % U8

\* BoundedString::pop: newlen = self.len() - ch.len_utf8()
pop_newlen(c) == (len(c) - len_utf8(pop_char(c))) % U8

Pop ==
    /\ pc = "live" /\ ~ub
    /\ nmut < MaxMut
    /\ nmut' = nmut + 1
    /\ IF ~length_in_buffer(chars) \/ ~from_utf8_ok(as_bytes(chars)) THEN
            \* as_str() hands out a str that is not UTF-8
            /\ ub' = TRUE
            /\ last' = Call("pop", FALSE, "ub", 0, <<>>, chars)
            /\ UNCHANGED chars
       ELSE IF len(chars) = 0 THEN
            /\ last' = Call("pop", TRUE, "None", 0, <<>>, chars)
            /\ UNCHANGED <<chars, ub>>
       ELSE
            /\ chars' = [chars EXCEPT ![1] = pop_newlen(chars)]
            /\ last' = Call("pop", TRUE, "", pop_char(chars), <<>>, chars)
            /\ UNCHANGED ub
    /\ UNCHANGED <<pc, src, wire, nenc, nwrites>>
    /\ UNCHANGED bridgeVars

\* s.encode(): Vec::with_capacity(self.size_hint()), then encode_to; the
\* wire now carries the encoding of the string and ret is the capacity asked
Encode ==
    /\ pc = "live" /\ ~ub
    /\ nenc < MaxEnc
    /\ nenc' = nenc + 1
    /\ IF ~length_in_buffer(chars) THEN
            \* &self.chars[..=len] is out of range
            /\ last' = Call("encode", FALSE, "panic", 0, <<>>, chars)
            /\ UNCHANGED <<pc, wire>>
       ELSE
            /\ pc' = "sent"
            /\ wire' = encode_to(chars)
            /\ last' = Call("encode", TRUE, "", size_hint(chars), <<>>, chars)
    /\ UNCHANGED <<chars, src, ub, nmut, nwrites>>
    /\ UNCHANGED bridgeVars

\* Message { kind: k, message: s }.encode()
EncodeMessage(k) ==
    /\ pc = "live" /\ ~ub
    /\ nenc < MaxEnc
    /\ nenc' = nenc + 1
    /\ IF ~length_in_buffer(chars) THEN
            /\ last' = Call("encode_message", FALSE, "panic", k, <<>>, chars)
            /\ UNCHANGED <<pc, wire>>
       ELSE
            /\ pc' = "sent"
            /\ wire' = encode_message(k, chars)
            /\ last' = Call("encode_message", TRUE, "", k, <<>>, chars)
    /\ UNCHANGED <<chars, src, ub, nmut, nwrites>>
    /\ UNCHANGED bridgeVars

\* BoundedString::decode(&mut wire)
Decode ==
    /\ pc \in {"incoming", "sent"} /\ ~ub
    /\ LET d == decode(wire)
       IN  /\ wire' = d.rest
           /\ last' = Call("decode", d.ok, d.err, 0, wire, chars)
           /\ chars' = IF d.ok THEN d.chars ELSE chars
           /\ pc' = IF d.ok THEN "live" ELSE "done"
    /\ UNCHANGED <<src, ub, nmut, nenc, nwrites>>
    /\ UNCHANGED bridgeVars

\* Message::decode(&mut wire); the payload becomes the string at hand
DecodeMessage ==
    /\ pc \in {"incoming", "sent"} /\ ~ub
    /\ LET d == decode_message(wire)
       IN  /\ wire' = d.rest
           /\ last' = Call("decode_message", d.ok, d.err, d.kind, wire, chars)
           /\ chars' = IF d.ok THEN d.chars ELSE chars
           /\ pc' = IF d.ok THEN "live" ELSE "done"
    /\ UNCHANGED <<src, ub, nmut, nenc, nwrites>>
    /\ UNCHANGED bridgeVars

Next ==
    \/ New
    \/ FromStr
    \/ From
    \/ FromStrChecked
    \/ \E ch \in PushChars : TryPush(ch)
    \/ Pop
    \/ Encode
    \/ EncodeMessage(Ping)
    \/ EncodeMessage(Pong)
    \/ Decode
    \/ DecodeMessage

Spec == Init /\ [][Next]_vars

(***************************************************************************)
(* The safe mutable accessors of bounded_str.rs: as_bytes_mut hands out    *)
(* &mut [u8] over slots 1..=len, as_mut_str a &mut str over the same       *)
(* bytes.  Safe code can store any byte through the first and can only     *)
(* call str's safe in-place methods through the second.                    *)
(***************************************************************************)

\* bytes a caller may store: 'A' and 0xFF
RawBytes == {65, 255}

\* positions of the slice a caller may index: the first and the last
WriteIndexes(c) == {1, len(c)} \cap (1..len(c))

\* s.as_bytes_mut()[i - 1] = b;
AsBytesMutWrite(i, b) ==
    /\ pc = "live" /\ ~ub
    /\ nwrites < MaxWrites
    /\ nwrites' = nwrites + 1
    /\ i \in WriteIndexes(chars)
    /\ IF ~length_in_buffer(chars) THEN
            /\ ub' = TRUE
            /\ last' = Call("as_bytes_mut", FALSE, "ub", 0, <<i, b>>, chars)
            /\ UNCHANGED chars
       ELSE
            /\ chars' = [chars EXCEPT ![i + 1] = b]
            /\ last' = Call("as_bytes_mut", TRUE, "", 0, <<i, b>>, chars)
            /\ UNCHANGED ub
    /\ UNCHANGED <<pc, src, wire, nmut, nenc>>
    /\ UNCHANGED bridgeVars

\* u8::to_ascii_uppercase
to_ascii_uppercase(b) == IF b >= 97 /\ b <= 122 THEN b - 32 ELSE b

\* s.as_mut_str().make_ascii_uppercase();
AsMutStrUpper ==
    /\ pc = "live" /\ ~ub
    /\ nwrites < MaxWrites
    /\ nwrites' = nwrites + 1
    /\ IF ~length_in_buffer(chars) \/ ~from_utf8_ok(as_bytes(chars)) THEN
            /\ ub' = TRUE
            /\ last' = Call("as_mut_str", FALSE, "ub", 0, <<>>, chars)
            /\ UNCHANGED chars
       ELSE
            /\ chars' = [i \in Slots |->
                            IF i > 1 /\ i - 1 <= len(chars)
                            THEN to_ascii_uppercase(chars[i]) ELSE chars[i]]
            /\ last' = Call("as_mut_str", TRUE, "", 0, <<>>, chars)
            /\ UNCHANGED ub
    /\ UNCHANGED <<pc, src, wire, nmut, nenc>>
    /\ UNCHANGED bridgeVars

NextRaw ==
    \/ Next
    \/ \E i \in 1..CHAR_LIMIT, b \in RawBytes : AsBytesMutWrite(i, b)
    \/ AsMutStrUpper

SpecRaw == Init /\ [][NextRaw]_vars

(***************************************************************************)
(* native-executor: the linear memory and the console_log import.          *)
(* mem maps the addresses stored to so far to their bytes.                 *)
(***************************************************************************)

\* A u32 / usize quantity n is written [page, off] with
\* n = page * WASM_PAGE_SIZE + off and 0 <= off < WASM_PAGE_SIZE.
Addr(page, off) == [page |-> page, off |-> off]

\* u32::MAX, which is also usize::MAX on a 32-bit host
U32Max == Addr(WASM_PAGE_SIZE - 1, WASM_PAGE_SIZE - 1)

Add(x, y) ==
    LET lo == x.off + y.off
    IN  Addr(x.page + y.page + (lo \div WASM_PAGE_SIZE), lo % WASM_PAGE_SIZE)

Leq(x, y) == x.page < y.page \/ (x.page = y.page /\ x.off <= y.off)

\* the size the memory had when it was created
MemSizeAtCreation == Addr(InitialPages, 0)

\* memory.data(&ctx).len()
MemSize == Addr(pages, 0)

\* an in-memory address as a plain number
Flat(x) == x.page * WASM_PAGE_SIZE + x.off

\* n <= usize::MAX, for n below 2^33 (a 64-bit usize holds all of them)
FitsUsize(n) == usizeBits > 32 \/ Leq(n, U32Max)

\* the byte at address a of memory.data()
MemAt(a) == IF a \in DOMAIN mem THEN mem[a] ELSE 0

\* usize::try_from(offset).unwrap_or(usize::MAX)
log_start(offset) == IF FitsUsize(offset) THEN offset ELSE U32Max

\* start.saturating_add(length as usize)
log_end(start, length) ==
    LET sum == Add(start, length)
    IN  IF FitsUsize(sum) THEN sum ELSE U32Max

\* a range check that lets the end run one byte past the slice
data_get_some_past_end(start, end, size) ==
    Leq(start, end) /\ Leq(end, Add(size, Addr(0, 1)))

\* <[u8]>::get(start..end).is_some() on a slice of the given size
data_get_some(start, end, size) == Leq(start, end) /\ Leq(end, size)

\* the bytes of data[start..end]
data_range(start, end) ==
    [i \in 1..(Flat(end) - Flat(start)) |-> MemAt(Flat(start) + i - 1)]

ErrMemoryAccess == "out of bounds memory access"
ErrLogUtf8 == "invalid utf-8 string"

\* the bytes taken for a string without validation
log_utf8_unchecked(bytes) == TRUE

\* std::str::from_utf8(bytes) is Ok
log_utf8_ok(bytes) == from_utf8_ok(bytes)

\* the host import console_log(offset, length), called by the guest
ConsoleLog(offset, length) ==
    /\ LET start == log_start(offset)
           end == log_end(start, length)
       IN  IF ~data_get_some(start, end, MemSize) THEN
                blast' = BridgeCall("console_log", offset, length, FALSE,
                                    ErrMemoryAccess, <<>>)
           ELSE IF ~log_utf8_ok(data_range(start, end)) THEN
                blast' = BridgeCall("console_log", offset, length, FALSE,
                                    ErrLogUtf8, <<>>)
           ELSE
                \* println!("{string}")
                blast' = BridgeCall("console_log", offset, length, TRUE, "",
                                    data_range(start, end))
    /\ UNCHANGED <<usizeBits, pages, mem, nstores, ngrows>>
    /\ UNCHANGED strVars

\* the guest grows the memory (core::arch::wasm32::memory_grow): refused
\* beyond the maximum of the memory type
MemoryGrow(delta) ==
    /\ ngrows < MaxGrows
    /\ ngrows' = ngrows + 1
    /\ IF pages + delta <= MaximumPages THEN
            /\ pages' = pages + delta
            /\ blast' = BridgeCall("memory_grow", Addr(delta, 0), Addr(0, 0),
                                   TRUE, "", <<>>)
       ELSE
            /\ blast' = BridgeCall("memory_grow", Addr(delta, 0), Addr(0, 0),
                                   FALSE, "refused", <<>>)
            /\ UNCHANGED pages
    /\ UNCHANGED <<usizeBits, mem, nstores>>
    /\ UNCHANGED strVars

\* the guest stores one byte into its memory; a store outside traps
GuestStore(a, b) ==
    /\ nstores < MaxStores
    /\ nstores' = nstores + 1
    /\ IF ~Leq(MemSize, a) THEN
            /\ mem' = [x \in DOMAIN mem \cup {Flat(a)} |->
                          IF x = Flat(a) THEN b ELSE mem[x]]
            /\ blast' = BridgeCall("store", a, Addr(0, 1), TRUE, "", <<>>)
       ELSE
            /\ blast' = BridgeCall("store", a, Addr(0, 1), FALSE, "trap", <<>>)
            /\ UNCHANGED mem
    /\ UNCHANGED <<usizeBits, pages, ngrows>>
    /\ UNCHANGED strVars

\* offsets and lengths a guest may pass: any u32; these sit around the
\* stored bytes, the end of the memory and the ends of the integer types
LogOffsets ==
    {Addr(0, 0), Addr(0, 128), Addr(0, 129), Addr(pages - 1, WASM_PAGE_SIZE - 1),
     Addr(pages, 0), Addr(pages, 1), Addr(WASM_PAGE_SIZE \div 2, 0), U32Max}
LogLengths ==
    {Addr(0, 0), Addr(0, 1), Addr(0, 2), Addr(0, 3), Addr(pages, 1),
     Addr(WASM_PAGE_SIZE \div 2, 0), Addr(WASM_PAGE_SIZE - 1, WASM_PAGE_SIZE - 128),
     U32Max}

StoreAddrs == {Addr(0, 128), Addr(0, 129), Addr(pages, 0)}
StoreBytes == {169, 195}

GrowDeltas == {1, MaximumPages - InitialPages}

NextBridge ==
    \/ \E offset \in LogOffsets, length \in LogLengths : ConsoleLog(offset, length)
    \/ \E delta \in GrowDeltas : MemoryGrow(delta)
    \/ \E a \in StoreAddrs, b \in StoreBytes : GuestStore(a, b)

\* the executor alone: no BoundedString is touched
InitBridge ==
    /\ pc = "start" /\ chars = new /\ src = <<>> /\ wire = <<>>
    /\ last = Call("init", TRUE, "", 0, <<>>, <<>>)
    /\ ub = FALSE /\ nmut = 0 /\ nenc = 0 /\ nwrites = 0
    /\ usizeBits \in {32, 64}
    /\ MemInit

SpecBridge == InitBridge /\ [][NextBridge]_vars

(***************************************************************************)
(* wasm-runtime: the guest exports add and call.  A u32 is written         *)
(* [page, off] as above.  The exports keep nothing from one call to the    *)
(* next, so the guest is followed from its instantiation through one call  *)
(* of an export (pc "guest" to "returned"); call is followed step by step, *)
(* one step for each call it makes out of the guest.                       *)
(***************************************************************************)

\* const OK: u32 = 1; const FAILURE: u32 = 0;
OK == 1
FAILURE == 0

\* "hello, world!"
HelloText ==
    <<104, 101, 108, 108, 111, 44, 32, 119, 111, 114, 108, 100, 33>>

\* "recebido: "
ReceivedPrefix == <<114, 101, 99, 101, 98, 105, 100, 111, 58, 32>>

\* "não foi possível decodar a mensagem."
DecodeFailedText ==
    <<110, 195, 163, 111, 32, 102, 111, 105, 32, 112, 111, 115, 115,
      195, 173, 118, 101, 108, 32, 100, 101, 99, 111, 100, 97, 114,
      32, 97, 32, 109, 101, 110, 115, 97, 103, 101, 109, 46>>

\* "mensagem: "
MessageLinePrefix == <<109, 101, 110, 115, 97, 103, 101, 109, 58, 32>>

\* "Message { kind: "
MessagePrefix ==
    <<77, 101, 115, 115, 97, 103, 101, 32, 123, 32, 107, 105, 110,
      100, 58, 32>>

\* ", message: "
MessageField == <<44, 32, 109, 101, 115, 115, 97, 103, 101, 58, 32>>

\* " }"
MessageSuffix == <<32, 125>>

\* <Kind as Debug>::fmt: "Ping" / "Pong"
debug_kind(k) == IF k = Ping THEN <<80, 105, 110, 103>> ELSE <<80, 111, 110, 103>>

\* a lowercase hex digit
hex_digit(d) == IF d < 10 THEN 48 + d ELSE 87 + d

\* const_hex::encode_prefixed: "0x" and two lowercase hex digits per byte
encode_prefixed(b) ==
    <<48, 120>> \o
    [i \in 1..(2 * Len(b)) |->
        IF i % 2 = 1 THEN hex_digit(b[(i + 1) \div 2] \div 16)
        ELSE hex_digit(b[i \div 2] % 16)]

\* core::unicode::printable::is_printable on ASCII and Latin-1; the wider
\* chars met here (U+2764, U+1F9E1) are printable
is_printable(c) ==
    IF c < 128 THEN c >= 32 /\ c # 127
    ELSE IF c < 256 THEN c >= 161 /\ c # 173
    ELSE TRUE

\* char::escape_debug as <str as Debug>::fmt uses it, for chars below
\* U+0100 where it escapes: \0 \t \n \r \\ \" and \u{..}
escape_debug(c) ==
    IF c = 0 THEN <<92, 48>>
    ELSE IF c = 9 THEN <<92, 116>>
    ELSE IF c = 10 THEN <<92, 110>>
    ELSE IF c = 13 THEN <<92, 114>>
    ELSE IF c = 92 THEN <<92, 92>>
    ELSE IF c = 34 THEN <<92, 34>>
    ELSE IF is_printable(c) THEN encode_utf8(c)
    ELSE <<92, 117, 123>>
         \o (IF c < 16 THEN <<hex_digit(c)>>
             ELSE <<hex_digit(c \div 16), hex_digit(c % 16)>>)
         \o <<125>>

\* <str as Debug>::fmt without the quotes, for the chars of the valid str b
\* that start in lo..hi
RECURSIVE debug_chars(_, _, _)
debug_chars(b, lo, hi) ==
    IF lo > hi THEN <<>>
    ELSE IF lo = hi THEN
        IF IsCont(b[lo]) THEN <<>>
        ELSE escape_debug(DecodeChar(SubSeq(b, lo, lo + width_of_lead(b[lo]) - 1)))
    ELSE debug_chars(b, lo, (lo + hi) \div 2)
         \o debug_chars(b, (lo + hi) \div 2 + 1, hi)

\* format!("{point:?}") for Message { kind: k, message: c }
debug_message(k, c) ==
    MessagePrefix \o debug_kind(k) \o MessageField
    \o <<34>> \o debug_chars(as_bytes(c), 1, len(c)) \o <<34>>
    \o MessageSuffix

\* log(message): ext::console_log(message.as_ptr(), message.len() as u32),
\* answered by the host's console_log import; the str lies in the guest's
\* memory at ptr, so the bytes the host reads there are the str's
guest_log(ptr, text) ==
    LET length == Addr(0, Len(text))
        start == log_start(ptr)
        end == log_end(start, length)
    IN  IF ~data_get_some(start, end, MemSize) THEN
            BridgeCall("console_log", ptr, length, FALSE, ErrMemoryAccess, <<>>)
        ELSE IF ~log_utf8_ok(text) THEN
            BridgeCall("console_log", ptr, length, FALSE, ErrLogUtf8, <<>>)
        ELSE BridgeCall("console_log", ptr, length, TRUE, "", text)

\* a + b does not fit a u32
add_overflows(a, b) == ~Leq(Add(a, b), U32Max)

\* u32::wrapping_add, what a + b computes without overflow checks
wrapping_add(a, b) == Addr(Add(a, b).page % WASM_PAGE_SIZE, Add(a, b).off)

\* the export add(a, b): log("hello, world!"); a + b.  With overflow checks
\* (debug builds) an overflowing sum panics and the panic handler traps;
\* without them (release builds) it wraps.
GuestAdd(a, b, ptr) ==
    /\ pc = "guest"
    /\ pc' = "returned"
    /\ blast' = guest_log(ptr, HelloText)
    /\ \E overflow_checks \in BOOLEAN :
         IF ~guest_log(ptr, HelloText).ok THEN
            last' = Call("add", FALSE, "trap", Addr(0, 0), <<a, b>>, <<>>)
         ELSE IF ~add_overflows(a, b) THEN
            last' = Call("add", TRUE, "", Add(a, b), <<a, b>>, <<>>)
         ELSE IF overflow_checks THEN
            last' = Call("add", FALSE, "trap", Addr(0, 0), <<a, b>>, <<>>)
         ELSE
            last' = Call("add", TRUE, "", wrapping_add(a, b), <<a, b>>, <<>>)
    /\ UNCHANGED <<chars, src, wire, ub, nmut, nenc, nwrites>>
    /\ UNCHANGED <<usizeBits, pages, mem, nstores, ngrows>>

\* vec![0u8; input_size] after the host's get_input wrote data to its front
input_buffer(input_size, data) ==
    [i \in 1..Flat(input_size) |-> IF i <= Len(data) THEN data[i] ELSE 0]

\* length as usize > input.len()
length_exceeds(length, input_size) == ~Leq(length, input_size)

\* call(input_size) up to the check of the length: the buffer is allocated,
\* the host's get_input writes data into it and stores the length it
\* reports; a length above the buffer's makes call return FAILURE, else
\* input.set_len(length)
CallEnter(input_size, length, data) ==
    /\ pc = "guest"
    /\ Len(data) <= Flat(input_size)
    /\ IF length_exceeds(length, input_size) THEN
            /\ last' = Call("call", TRUE, "", FAILURE, <<input_size, length>>,
                            input_buffer(input_size, data))
            /\ wire' = input_buffer(input_size, data)
            /\ pc' = "returned"
       ELSE
            /\ last' = Call("get_input", TRUE, "", 0, <<input_size, length>>,
                            input_buffer(input_size, data))
            /\ wire' = SubSeq(input_buffer(input_size, data), 1, Flat(length))
            /\ pc' = "call_log_input"
    /\ UNCHANGED <<chars, src, ub, nmut, nenc, nwrites>>
    /\ UNCHANGED bridgeVars

\* log(format!("recebido: {}", hex::encode_prefixed(&input)).as_str())
CallLogInput(ptr) ==
    /\ pc = "call_log_input"
    /\ blast' = guest_log(ptr, ReceivedPrefix \o encode_prefixed(wire))
    /\ IF guest_log(ptr, ReceivedPrefix \o encode_prefixed(wire)).ok THEN
            /\ pc' = "call_decode"
            /\ UNCHANGED last
       ELSE
            /\ pc' = "returned"
            /\ last' = Call("call", FALSE, "trap", 0, last.arg, wire)
    /\ UNCHANGED <<chars, src, wire, ub, nmut, nenc, nwrites>>
    /\ UNCHANGED <<usizeBits, pages, mem, nstores, ngrows>>

\* Message::decode answering DecodeAll, which refuses bytes left over
call_decode_all(inp) ==
    LET d == decode_message(inp)
    IN  IF d.ok /\ d.rest # <<>> THEN [d EXCEPT !.ok = FALSE] ELSE d

\* Message::decode(&mut input.as_ref())
call_decode(inp) == decode_message(inp)

\* the rest of call: the message is decoded, the outcome is logged and
\* OK or FAILURE is returned
CallDecode(ptr) ==
    /\ pc = "call_decode"
    /\ pc' = "returned"
    /\ LET d == call_decode(wire)
           line == IF d.ok THEN MessageLinePrefix \o debug_message(d.kind, d.chars)
                   ELSE DecodeFailedText
       IN  /\ blast' = guest_log(ptr, line)
           /\ IF ~guest_log(ptr, line).ok THEN
                    last' = Call("call", FALSE, "trap", 0, last.arg, wire)
              ELSE IF d.ok THEN
                    last' = Call("call", TRUE, "", OK, last.arg, wire)
              ELSE
                    last' = Call("call", TRUE, "", FAILURE, last.arg, wire)
    /\ UNCHANGED <<chars, src, wire, ub, nmut, nenc, nwrites>>
    /\ UNCHANGED <<usizeBits, pages, mem, nstores, ngrows>>

\* arguments of add: those of the test and of the executor, and values
\* around the ends of the u32 range
AddArgs ==
    {Addr(0, 0), Addr(0, 1), Addr(0, 2), Addr(0, 10), Addr(0, 15),
     Addr(WASM_PAGE_SIZE \div 2, 0), Addr(WASM_PAGE_SIZE - 1, WASM_PAGE_SIZE - 2),
     U32Max}

\* where a str of the guest may lie: anywhere inside its memory
StrPtrs == {Addr(0, 1024), Addr(1, 0)}

\* bytes of the buffer the host leaves untouched behind what it wrote; the
\* buffers are of sizes the guest's allocator serves
Slack == {0, 1}

\* lengths the host may report for a buffer of input_size bytes of which it
\* wrote n: nothing (as the stub of the native build does), what it wrote,
\* the whole buffer, one more, and the largest u32
ReportedLengths(input_size, n) ==
    {Addr(0, 0), Addr(0, n), input_size, Add(input_size, Addr(0, 1)), U32Max}

NextGuest ==
    \/ \E a \in AddArgs, b \in AddArgs, ptr \in StrPtrs : GuestAdd(a, b, ptr)
    \/ \E data \in WireInputs, k \in Slack :
         \E length \in ReportedLengths(Addr(0, Len(data) + k), Len(data)) :
            CallEnter(Addr(0, Len(data) + k), length, data)
    \/ \E ptr \in StrPtrs : CallLogInput(ptr)
    \/ \E ptr \in StrPtrs : CallDecode(ptr)

\* the guest alone, instantiated and idle
InitGuest ==
    /\ pc = "guest" /\ chars = new /\ src = <<>> /\ wire = <<>>
    /\ last = Call("init", TRUE, "", 0, <<>>, <<>>)
    /\ ub = FALSE /\ nmut = 0 /\ nenc = 0 /\ nwrites = 0
    /\ usizeBits = 64
    /\ MemInit

SpecGuest == InitGuest /\ [][NextGuest]_vars

(***************************************************************************)
(* Properties                                                              *)
(***************************************************************************)

\* a BoundedString is at hand
Exists == pc \in {"live", "sent"}

\* C1: whatever safe operations were applied, byte writes through
\* as_bytes_mut / as_mut_str included, the bytes in slots 1..=length are
\* valid UTF-8.
C1_Utf8Invariant == Exists => from_utf8_ok(as_bytes(chars))

\* C2: no unsafe precondition is ever violated, the length byte stays in
\* 0..=CHAR_LIMIT, the slices taken at 1..=length and 0..=length lie inside
\* the buffer, and the u8 addition of try_push never wraps.
C2_CapacityInvariant ==
    /\ ~ub
    /\ Len(chars) = CHAR_LIMIT + 1
    /\ len(chars) >= 0 /\ len(chars) <= CHAR_LIMIT
    /\ Len(as_bytes(chars)) + 1 <= Len(chars)
    /\ Len(encode_to(chars)) <= Len(chars)
    /\ (last.op = "try_push" /\ last.ret = 1) =>
            len(last.pre) + len_utf8(last.arg[1]) < U8
    /\ last.err # "panic"

C2_Witness ==
    /\ last.op = "try_push" /\ last.ret = 1
    /\ len(chars) = CHAR_LIMIT
    /\ len_utf8(last.arg[1]) = 4

\* some padding slot holds a byte left behind by an earlier push
StalePadding(c) == \E i \in Slots : i > len(c) + 1 /\ c[i] # 0

\* C3: decoding what encode produced gives back an equal string, and
\* decoding what Message::encode produced gives back the same kind and an
\* equal payload; in both cases the whole input is consumed.
C3_RoundTrip ==
    /\ (last.op = "decode" /\ last.arg = encode_to(last.pre)) =>
            /\ last.ok
            /\ eq(chars, last.pre)
            /\ wire = <<>>
    /\ \A k \in Kind :
         (last.op = "decode_message" /\ last.arg = encode_message(k, last.pre)) =>
            /\ last.ok
            /\ last.ret = k
            /\ eq(chars, last.pre)
            /\ wire = <<>>

C3_Witness ==
    /\ last.op = "decode_message"
    /\ last.arg = encode_message(Pong, last.pre)
    /\ StalePadding(last.pre)
    /\ len(last.pre) > 0
    /\ nenc = 1

\* str::is_char_boundary(j) for a valid str s
IsCharBoundary(s, j) == j = 0 \/ j = Len(s) \/ (j < Len(s) /\ ~IsCont(s[j + 1]))

\* C4: from_str never fails; an input that fits is copied verbatim, a longer
\* one is cut at the largest char boundary k <= CHAR_LIMIT, and
\* CHAR_LIMIT - 3 <= k <= CHAR_LIMIT (the debug assertion holds).
C4_FromStr ==
    last.op = "from_str" =>
        /\ last.ok
        /\ from_str_assert(src)
        /\ Len(src) <= CHAR_LIMIT => as_bytes(chars) = src
        /\ Len(src) > CHAR_LIMIT =>
            LET k == len(chars)
            IN  /\ as_bytes(chars) = SubSeq(src, 1, k)
                /\ k >= CHAR_LIMIT - 3 /\ k <= CHAR_LIMIT
                /\ IsCharBoundary(src, k)
                /\ \A j \in (k + 1)..CHAR_LIMIT : ~IsCharBoundary(src, j)

C4_Witness ==
    /\ last.op = "from_str"
    /\ Len(src) > CHAR_LIMIT
    /\ len(chars) = CHAR_LIMIT - 3

\* C6: decoding an input without a length byte, or with a length byte
\* L <= CHAR_LIMIT and fewer than L bytes after it, fails with the codec's
\* not-enough-data error and yields no string.
C6_DecodeTruncated ==
    (/\ last.op = "decode"
     /\ \/ last.arg = <<>>
        \/ (last.arg # <<>> /\ last.arg[1] <= CHAR_LIMIT
            /\ Len(last.arg) - 1 < last.arg[1])) =>
        /\ ~last.ok
        /\ last.err = ErrNotEnoughData
        /\ pc = "done"
        /\ chars = last.pre

C6_Witness ==
    /\ last.op = "decode"
    /\ last.arg # <<>>
    /\ last.arg[1] = CHAR_LIMIT
    /\ Len(last.arg) = CHAR_LIMIT

\* C7: decoding a length byte L <= CHAR_LIMIT followed by at least L bytes of
\* which the first L are not valid UTF-8 fails with the invalid-utf8 error
\* and yields no string.
C7_DecodeInvalidUtf8 ==
    (/\ last.op = "decode"
     /\ last.arg # <<>>
     /\ last.arg[1] <= CHAR_LIMIT
     /\ Len(last.arg) - 1 >= last.arg[1]
     /\ ~from_utf8_ok(SubSeq(last.arg, 2, last.arg[1] + 1))) =>
        /\ ~last.ok
        /\ last.err = ErrInvalidUtf8
        /\ pc = "done"
        /\ chars = last.pre

C7_Witness ==
    /\ last.op = "decode"
    /\ Len(last.arg) = 3
    /\ last.arg[1] = 2
    /\ last.arg[2] = 195 /\ last.arg[3] = 97

\* C8: a length byte above CHAR_LIMIT is rejected with the out-of-bounds
\* error after reading that byte only, whatever follows it.
C8_DecodeOverCapacity ==
    (/\ last.op = "decode"
     /\ last.arg # <<>>
     /\ last.arg[1] > CHAR_LIMIT) =>
        /\ ~last.ok
        /\ last.err = ErrOutOfBounds
        /\ wire = Tail(last.arg)
        /\ pc = "done"
        /\ chars = last.pre

C8_Witness ==
    /\ last.op = "decode"
    /\ Len(last.arg) = CHAR_LIMIT + 2
    /\ last.arg[1] = CHAR_LIMIT + 1
    /\ from_utf8_ok(Tail(last.arg))

\* C9: a Message (and a Kind / Sender) whose first byte is neither 0 nor 1
\* fails to decode with the no-such-variant error, whatever the payload.
C9_UnknownDiscriminant ==
    (/\ last.op = "decode_message"
     /\ last.arg # <<>>
     /\ last.arg[1] \notin {0, 1}) =>
        /\ ~last.ok
        /\ last.err = ErrNoVariant
        /\ ~decode_kind(last.arg).ok
        /\ decode_kind(last.arg).err = ErrNoVariant
        /\ pc = "done"

C9_Witness ==
    /\ last.op = "decode_message"
    /\ Len(last.arg) = 3
    /\ last.arg[1] = 2
    /\ decode(Tail(last.arg)).err = ErrInvalidUtf8

\* C10: try_push(ch) returns true exactly when length + len_utf8(ch) <=
\* CHAR_LIMIT; then the content is the old content followed by ch; when it
\* returns false the length and the content are unchanged.
C10_TryPush ==
    last.op = "try_push" =>
        LET ch == last.arg[1]
            old == last.pre
        IN  /\ last.ret = 1 <=> len(old) + len_utf8(ch) <= CHAR_LIMIT
            /\ last.ret = 1 =>
                /\ as_bytes(chars) = as_bytes(old) \o encode_utf8(ch)
                /\ len(chars) = len(old) + len_utf8(ch)
            /\ last.ret # 1 =>
                /\ len(chars) = len(old)
                /\ as_bytes(chars) = as_bytes(old)

C10_Witness ==
    /\ last.op = "try_push"
    /\ last.ret = 0
    /\ len(last.pre) = CHAR_LIMIT - 3
    /\ len_utf8(last.arg[1]) = 4

\* C11: pop on a non-empty string returns its last char ch, shortens the
\* string by len_utf8(ch) bytes (1 to 4) and leaves the bytes before ch as
\* they were; pop on an empty string returns None and leaves it empty.
C11_Pop ==
    last.op = "pop" =>
        LET old == last.pre
        IN  /\ last.ok
            /\ len(old) = 0 =>
                /\ last.err = "None"
                /\ chars = old
                /\ len(chars) = 0
            /\ len(old) > 0 =>
                LET w == len_utf8(last.ret)
                IN  /\ last.err = ""
                    /\ w >= 1 /\ w <= 4
                    /\ len(chars) = len(old) - w
                    /\ as_bytes(old) = as_bytes(chars) \o encode_utf8(last.ret)
                    /\ \A i \in Slots : i > 1 => chars[i] = old[i]

C11_Witness ==
    /\ last.op = "pop"
    /\ last.ret = 233
    /\ len(last.pre) = CHAR_LIMIT
    /\ len(chars) = CHAR_LIMIT - 2

\* C12: a pop made right after a successful try_push(ch) returns ch and
\* leaves a string equal to the one before the push, in content and length.
C12_PushPop ==
    [][(last.op = "try_push" /\ last.ret = 1 /\ last'.op = "pop") =>
            /\ last'.ok /\ last'.err = ""
            /\ last'.ret = last.arg[1]
            /\ last'.pre = chars
            /\ eq(chars', last.pre)
            /\ len(chars') = len(last.pre)
            /\ as_bytes(chars') = as_bytes(last.pre)]_vars

\* the string was built from ASCII only, one 4-byte char was pushed and it
\* was popped by the next call
C12_Witness ==
    /\ last.op = "pop"
    /\ last.ret = 129505
    /\ nmut = 2 /\ nenc = 0
    /\ src # <<>> /\ \A i \in 1..Len(src) : src[i] < 128
    /\ as_bytes(chars) = src

\* C13: encode emits exactly 1 + L bytes, the length byte L followed by the
\* L content bytes; no byte of the buffer beyond slot L is transmitted.
C13_WireFormat ==
    (last.op = "encode" /\ last.ok) =>
        LET old == last.pre
        IN  /\ Len(wire) = 1 + len(old)
            /\ wire[1] = len(old)
            /\ Tail(wire) = as_bytes(old)
            /\ wire = <<len(old)>> \o as_bytes(old)
            /\ Len(wire) = encoded_size(old)

C13_Witness ==
    /\ last.op = "encode" /\ last.ok
    /\ StalePadding(last.pre)
    /\ len(last.pre) > 0
    /\ last.pre[len(last.pre) + 2] >= 128

\* C14: Message::encode emits one discriminant byte, 0 for the first
\* variant and 1 for the second, followed by the BoundedString encoding of
\* the payload; a single byte 0 or 1 decodes to the variant that encodes to
\* it, and a decoded Message carries the variant its first byte names.
C14_MessageWireFormat ==
    /\ (last.op = "encode_message" /\ last.ok) =>
            LET old == last.pre
            IN  /\ Len(wire) = 2 + len(old)
                /\ wire[1] = last.ret
                /\ wire[1] = (IF last.ret = Ping THEN 0 ELSE 1)
                /\ Tail(wire) = <<len(old)>> \o as_bytes(old)
    /\ (last.op = "decode_message" /\ last.ok) => last.ret = last.arg[1]
    /\ \A b \in {0, 1} :
            /\ decode_kind(<<b>>).ok
            /\ decode_kind(<<b>>).rest = <<>>
            /\ encode_kind(decode_kind(<<b>>).kind) = <<b>>

C14_Witness ==
    /\ last.op = "encode_message" /\ last.ok
    /\ last.ret = Pong
    /\ len(last.pre) = CHAR_LIMIT
    /\ wire[1] = 1

\* the bytes 00 12 6D 65 ... 74: Ping, a length byte of 18, the 17 bytes of
\* "message from host"
HostBytes18 == <<0, 18>> \o HostText

\* the bytes 00 11 6D 65 ... 74: Ping, a length byte of 17, the same text
HostBytes17 == <<0, 17>> \o HostText

\* C15 as stated: encoding Message{Ping, "message from host"} yields
\* 00 12 followed by the text, and decoding these bytes gives the Message.
C15_HostScenario18 ==
    /\ (last.op = "encode_message" /\ last.ok /\ last.ret = Ping
        /\ as_bytes(last.pre) = HostText) => wire = HostBytes18
    /\ (last.op = "decode_message" /\ last.arg = HostBytes18) =>
            /\ last.ok
            /\ last.ret = Ping
            /\ as_bytes(chars) = HostText

\* C15: encoding Message{Ping, "message from host"} yields 00 11 followed
\* by the 17 ASCII bytes of the text (19 bytes), and decoding exactly these
\* bytes gives back Ping and the same text.
C15_HostScenario ==
    /\ (last.op = "encode_message" /\ last.ok /\ last.ret = Ping
        /\ as_bytes(last.pre) = HostText) =>
            /\ wire = HostBytes17
            /\ Len(wire) = 19
    /\ (last.op = "decode_message" /\ last.arg = HostBytes17) =>
            /\ last.ok
            /\ last.ret = Ping
            /\ as_bytes(chars) = HostText
            /\ len(chars) = 17
            /\ wire = <<>>

C15_Witness ==
    /\ last.op = "decode_message" /\ last.ok
    /\ last.arg = HostBytes17
    /\ src = HostText
    /\ nenc = 1 /\ nmut = 0

\* C16 as stated: the size hint of a string of length L is 1 + L, the
\* number of bytes encode emits.
C16_SizeHintExact ==
    (last.op = "encode" /\ last.ok) =>
        /\ last.ret = 1 + len(last.pre)
        /\ last.ret = Len(wire)

\* C16: encoded_size is 1 + L, the number of bytes encode emits; the size
\* hint is CHAR_LIMIT + 1 whatever L is, never below the bytes emitted and
\* equal to them only when L = CHAR_LIMIT.
C16_SizeHint ==
    (last.op = "encode" /\ last.ok) =>
        /\ encoded_size(last.pre) = 1 + len(last.pre)
        /\ encoded_size(last.pre) = Len(wire)
        /\ last.ret = CHAR_LIMIT + 1
        /\ last.ret >= Len(wire)
        /\ last.ret = Len(wire) <=> len(last.pre) = CHAR_LIMIT

C16_Witness ==
    /\ last.op = "encode" /\ last.ok
    /\ len(last.pre) = 1
    /\ last.ret = CHAR_LIMIT + 1
    /\ Len(wire) = 2

\* the range console_log(offset, length) reads lies inside the memory as
\* it is now
LogInBounds(offset, length) ==
    LET start == log_start(offset)
        end == log_end(start, length)
    IN  Leq(start, end) /\ Leq(end, Addr(pages, 0))

\* the bytes console_log(offset, length) reads
LogBytes(offset, length) ==
    data_range(log_start(offset), log_end(log_start(offset), length))

\* C17: console_log prints a string only when the range is inside the
\* memory and the bytes read are valid UTF-8, and what it prints is those
\* bytes; bytes in bounds that are not valid UTF-8 give the invalid-utf-8
\* error and nothing is printed.
C17_ValidatedText ==
    blast.op = "console_log" =>
        LET inb == LogInBounds(blast.offset, blast.length)
        IN  /\ blast.ok =>
                /\ inb
                /\ from_utf8_ok(LogBytes(blast.offset, blast.length))
                /\ blast.text = LogBytes(blast.offset, blast.length)
            /\ (inb /\ ~from_utf8_ok(LogBytes(blast.offset, blast.length))) =>
                /\ ~blast.ok
                /\ blast.err = ErrLogUtf8
            /\ ~blast.ok => blast.text = <<>>

C17_Witness ==
    /\ blast.op = "console_log"
    /\ blast.err = ErrLogUtf8
    /\ blast.offset = Addr(0, 128) /\ blast.length = Addr(0, 1)
    /\ MemAt(128) = 195 /\ MemAt(129) = 169
    /\ blast.text = <<>>

\* C18: the memory holds between InitialPages and MaximumPages pages and
\* never shrinks, and every console_log call is refused for its range
\* exactly when the range does not lie inside the memory as it is at that
\* call, so a range beyond the initial size is read once the memory has
\* grown over it and refused while the memory is still too small.
C18_NoStaleSize ==
    /\ [](/\ pages >= InitialPages /\ pages <= MaximumPages
          /\ blast.op = "console_log" =>
                (blast.err = ErrMemoryAccess
                    <=> ~LogInBounds(blast.offset, blast.length)))
    /\ [][pages' >= pages]_vars

\* a read ending beyond the initial size succeeded after a growth
C18_Witness ==
    /\ blast.op = "console_log" /\ blast.ok
    /\ ngrows > 0 /\ pages > InitialPages
    /\ ~Leq(log_end(log_start(blast.offset), blast.length),
            Addr(InitialPages, 0))

\* C19: from_str_checked / try_from_str returns None exactly when the
\* input is longer than CHAR_LIMIT bytes, and then builds nothing; otherwise
\* the string holds the input byte for byte and has its length.
C19_CheckedConstruction ==
    last.op = "from_str_checked" =>
        /\ ~last.ok <=> Len(src) > CHAR_LIMIT
        /\ ~last.ok =>
            /\ last.err = "None"
            /\ pc = "start"
            /\ chars = new
        /\ last.ok =>
            /\ pc = "live"
            /\ as_bytes(chars) = src
            /\ len(chars) = Len(src)

C19_Witness ==
    /\ last.op = "from_str_checked"
    /\ last.ok
    /\ Len(src) = CHAR_LIMIT
    /\ src[CHAR_LIMIT] >= 128

\* the same length and the same bytes in slots 1..=length
SameContent(a, b) ==
    /\ len(a) = len(b)
    /\ \A i \in 1..len(a) : a[i + 1] = b[i + 1]

\* a string freshly built from the content of c
Fresh(c) == from_str(as_bytes(c))

\* the strings the current one is compared with: one freshly built from
\* its content, and the one the last call was made on
Others ==
    {Fresh(chars)} \cup (IF Len(last.pre) = Len(new) THEN {last.pre} ELSE {})

\* C20: two strings with the same length and the same bytes in slots
\* 1..=length are equal and feed the same bytes to the hasher, whatever
\* their padding slots hold; two with different content are unequal.
C20_EqHash ==
    Exists =>
        \A b \in Others :
            IF SameContent(chars, b)
            THEN eq(chars, b) /\ eq(b, chars) /\ hash(chars) = hash(b)
            ELSE ~eq(chars, b) /\ ~eq(b, chars) /\ hash(chars) # hash(b)

C20_Witness ==
    /\ last.op = "pop" /\ last.err = ""
    /\ StalePadding(chars)
    /\ chars # Fresh(chars)
    /\ eq(chars, Fresh(chars))
    /\ ~eq(chars, last.pre)

\* C21 as stated: add(a, b) returns the arithmetic sum of its arguments for
\* every pair of u32 arguments, after logging "hello, world!".
C21_AddSum ==
    last.op = "add" =>
        /\ last.ok
        /\ last.ret = Add(last.arg[1], last.arg[2])
        /\ blast.op = "console_log" /\ blast.ok /\ blast.text = HelloText

\* a Message is encoded at the front of b: a discriminant 0 or 1, a length
\* byte L of at most CHAR_LIMIT, and L bytes that are valid UTF-8
StartsWithMessage(b) ==
    /\ Len(b) >= 2
    /\ b[1] \in {0, 1}
    /\ b[2] <= CHAR_LIMIT
    /\ Len(b) >= 2 + b[2]
    /\ from_utf8_ok(SubSeq(b, 3, 2 + b[2]))

\* C22: call never traps; when the host reports a length above the size of
\* the buffer it returns FAILURE, the buffer keeps its size and nothing of
\* it is logged; otherwise the input is cut to the reported length and call
\* returns OK exactly when a Message is encoded at its front, whatever
\* follows, and FAILURE if not.
C22_GuestCall ==
    last.op = "call" =>
        LET input_size == last.arg[1]
            length == last.arg[2]
        IN  /\ last.ok /\ last.err # "trap"
            /\ last.ret \in {OK, FAILURE}
            /\ ~Leq(length, input_size) =>
                /\ last.ret = FAILURE
                /\ Len(last.pre) = Flat(input_size)
                /\ blast.op = "init"
            /\ Leq(length, input_size) =>
                /\ Len(last.pre) = Flat(length)
                /\ last.ret = OK <=> StartsWithMessage(last.pre)
                /\ last.ret = FAILURE <=> ~StartsWithMessage(last.pre)

\* call returned OK for a Message followed by bytes that are not part of it
C22_Witness ==
    /\ last.op = "call"
    /\ last.ret = OK
    /\ Len(last.pre) > 2 + last.pre[2]
    /\ last.pre[2] > 0
    /\ blast.ok

\* C23: for every valid UTF-8 input the forward construction of tiny_str.rs
\* and the backward scan of bounded_str.rs's from_str build strings of the
\* same length with the same content bytes.
C23_ConstructorsAgree ==
    (last.op \in {"from", "from_str"} /\ last.ok) =>
        /\ len(from(src)) = len(from_str(src))
        /\ \A i \in 1..len(from(src)) : from(src)[i + 1] = from_str(src)[i + 1]
        /\ SameContent(chars, from(src))
        /\ SameContent(chars, from_str(src))

C23_Witness ==
    /\ last.op = "from"
    /\ Len(src) = CHAR_LIMIT + 1
    /\ len(chars) = CHAR_LIMIT - 3
    /\ len(from_str(src)) = CHAR_LIMIT - 3

\* C5: a console_log read whose offset + length exceeds the current memory
\* size fails with the out-of-bounds error and interprets no byte, for any
\* u32 offset and length; the end address saturates instead of wrapping.
C5_BoundsRejection ==
    (/\ blast.op = "console_log"
     /\ ~Leq(Add(blast.offset, blast.length), MemSize)) =>
        /\ ~blast.ok
        /\ blast.err = ErrMemoryAccess
        /\ blast.text = <<>>
        /\ Leq(log_start(blast.offset),
               log_end(log_start(blast.offset), blast.length))

C5_Witness ==
    /\ blast.op = "console_log"
    /\ usizeBits = 32
    /\ blast.offset = Addr(0, 129)
    /\ blast.length = Addr(WASM_PAGE_SIZE - 1, WASM_PAGE_SIZE - 128)
    /\ ~blast.ok

====
